---- MODULE Spec2Model ----
(***************************************************************************)
(* PetCare Advisor: the triage pipeline (root_orchestrator driven by       *)
(* triage_endpoint), the stage functions it calls, and the collaborative   *)
(* agent (detect_discrepancies, _collaborative_agent_function).            *)
(*                                                                         *)
(* Python values are modelled as follows.                                  *)
(*   dict            a record; an absent key is absent from its DOMAIN     *)
(*   d.get(k, v)     Get(d, k, v)                                          *)
(*   Optional[T]     None = <<>>, a present value v = <<v>>               *)
(*   str             a short ASCII string; strings that are searched for   *)
(*                   substrings are sequences of characters, Korean        *)
(*                   syllables are written in romanised form               *)
(*   None inside a   the string "None"                                     *)
(*   label field                                                           *)
(*   float 0.8       the integer 80 (hundredths)                           *)
(* An LLM response is [kind, data]: kind "json" (content parses to the     *)
(* dict data), "bad_json" (json.loads raises JSONDecodeError) or "error"   *)
(* (llm.invoke raises).                                                    *)
(***************************************************************************)
EXTENDS Integers, Sequences, FiniteSets, TLC

VARIABLES
    state,        \* the GraphState handed to root_orchestrator
    image_urls,   \* request.image_urls of the current request
    pc,           \* position of triage_endpoint / of the driver
    result,       \* outcome of the last root_orchestrator call
    log,          \* tools invoked so far in this run, in order
    response,     \* the TriageResponse returned by triage_endpoint
    cin,          \* arguments of the collaborative agent
    analysis,     \* value returned by detect_discrepancies
    cout,         \* outcome of _collaborative_agent_function / _triage_agent_function
    reviewerCalls, \* llm.invoke calls made by the collaborative agent
    llm           \* the answers llm.invoke gave so far, each with the stage that asked

vars ==
    <<state, image_urls, pc, result, log, response, cin, analysis, cout, reviewerCalls, llm>>

-----------------------------------------------------------------------------
(* Python helpers *)

None == <<>>

Some(v) == <<v>>

Get(d, k, default) == IF k \in DOMAIN d THEN d[k] ELSE default

Min(a, b) == IF a < b THEN a ELSE b

Max(a, b) == IF a > b THEN a ELSE b

\* `sub in s` for Python strings
Contains(s, sub) ==
    \E i \in 1..(Len(s) - Len(sub) + 1) : SubSeq(s, i, i + Len(sub) - 1) = sub

\* dict d with the keys of upd set (d[k] = v for each k, v of upd)
Update(d, upd) ==
    [k \in DOMAIN d \cup DOMAIN upd |-> IF k \in DOMAIN upd THEN upd[k] ELSE d[k]]

\* an exception leaving a function
Raised == [exception |-> "Exception"]

IsRaised(r) == "exception" \in DOMAIN r

LLMJson(data) == [kind |-> "json", data |-> data]

LLMBadJson == [kind |-> "bad_json", data |-> <<>>]

LLMError == [kind |-> "error", data |-> <<>>]

\* one llm.invoke call: the stage that made it and the answer it got
Answer(stage, resp) == [stage |-> stage, resp |-> resp]

-----------------------------------------------------------------------------
(* shared/constants.py *)

OUTPUT_KEY_SYMPTOM_INTAKE == "symptom_intake_result"

OUTPUT_KEY_VISION_ANALYSIS == "vision_analysis_result"

OUTPUT_KEY_MEDICAL_ANALYSIS == "medical_analysis_result"

OUTPUT_KEY_TRIAGE == "triage_result"

OUTPUT_KEY_CAREPLAN == "careplan_result"

TRIAGE_INFO == "INFO"

TRIAGE_LOW == "LOW"

TRIAGE_MODERATE == "MODERATE"

TRIAGE_HIGH == "HIGH"

TRIAGE_EMERGENCY == "EMERGENCY"

Envelope_SharedKey(key, data) == [output_key |-> "agent_result", structured_data |-> data]

Envelope(key, data) == [output_key |-> key, structured_data |-> data]

-----------------------------------------------------------------------------
(* agents/symptom_intake_agent.py *)

_symptom_intake_function(resp) ==
    CASE resp.kind = "json" -> Envelope(OUTPUT_KEY_SYMPTOM_INTAKE, resp.data)
      [] resp.kind = "bad_json" ->
            Envelope(OUTPUT_KEY_SYMPTOM_INTAKE,
                     [main_symptoms |-> <<>>, raw_input |-> "user_input"])
      [] OTHER -> Raised

-----------------------------------------------------------------------------
(* agents/vision_agent.py *)

_vision_analysis_function(symptom_data, image_refs, resp) ==
    IF image_refs = <<>> THEN
        Envelope(OUTPUT_KEY_VISION_ANALYSIS,
                 [has_images |-> FALSE, visual_findings |-> <<>>, confidence |-> "None"])
    ELSE CASE resp.kind = "json" ->
                Envelope(OUTPUT_KEY_VISION_ANALYSIS,
                         [k \in DOMAIN resp.data \cup {"image_urls"} |->
                             IF k = "image_urls" THEN image_refs ELSE resp.data[k]])
           [] resp.kind = "bad_json" ->
                Envelope(OUTPUT_KEY_VISION_ANALYSIS,
                         [has_images |-> TRUE,
                          image_count |-> Len(image_refs),
                          image_urls |-> image_refs,
                          visual_findings |-> <<>>,
                          wound_detected |-> FALSE,
                          swelling_detected |-> FALSE,
                          skin_issues_detected |-> FALSE,
                          eye_issues_detected |-> FALSE,
                          posture_abnormalities |-> FALSE,
                          visible_distress |-> FALSE,
                          confidence |-> "None"])
           [] OTHER -> Raised

-----------------------------------------------------------------------------
(* agents/medical_agent.py *)

_medical_analysis_function(symptom_data, vision_data, resp) ==
    CASE resp.kind = "json" -> Envelope(OUTPUT_KEY_MEDICAL_ANALYSIS, resp.data)
      [] resp.kind = "bad_json" ->
            Envelope(OUTPUT_KEY_MEDICAL_ANALYSIS,
                     [primary_assessment |-> "",
                      riskLevel |-> "medium",
                      possible_diseases |-> <<>>,
                      differential_diagnosis |-> <<>>,
                      reasoning |-> <<>>,
                      risk_factors |-> <<>>,
                      additional_questions |-> <<>>,
                      recommended_tests |-> <<>>,
                      recommended_exams |-> <<>>,
                      confidence |-> "None",
                      certainty_level |-> "None",
                      medication_guidance |-> "",
                      final_notes_for_care_agent |-> "",
                      notes |-> ""])
      [] OTHER -> Raised

-----------------------------------------------------------------------------
(* agents/careplan_agent.py *)

\* _careplan_agent_function re-raising the JSONDecodeError
_careplan_agent_function_RaisesOnBadJson(symptom_data, medical_data, triage_data, resp) ==
    CASE resp.kind = "json" -> Envelope(OUTPUT_KEY_CAREPLAN, resp.data)
      [] OTHER -> Raised

_careplan_agent_function(symptom_data, medical_data, triage_data, resp) ==
    CASE resp.kind = "json" -> Envelope(OUTPUT_KEY_CAREPLAN, resp.data)
      [] resp.kind = "bad_json" ->
            Envelope(OUTPUT_KEY_CAREPLAN,
                     [home_care_instructions |-> <<>>,
                      things_to_avoid |-> <<>>,
                      when_to_see_vet |-> "",
                      emergency_indicators |-> <<>>,
                      monitoring_guidance |-> <<>>,
                      supportive_message |-> ""])
      [] OTHER -> Raised

-----------------------------------------------------------------------------
(* agents/triage_agent.py *)

\* the substrings searched for in str(duration): "7 days", "one week",
\* "48 hours", "2 days" (each Korean syllable is one character)
Marker7Days == <<"7", "il">>

MarkerOneWeek == <<"il", "ju", "il">>

Marker48Hours == <<"4", "8", "si", "gan">>

Marker2Days == <<"2", "il">>

\* keys of breed_vulnerabilities: bulldog, pug, golden retriever, labrador
breed_vulnerabilities ==
    { <<"bul", "dog">>,
      <<"peo", "geu">>,
      <<"gol", "deun", " ", "ri", "teu", "ri", "beo">>,
      <<"lae", "beu", "ra", "do">> }

DurationWeight(duration) ==
    IF Contains(duration, Marker7Days) \/ Contains(duration, MarkerOneWeek) THEN 2
    ELSE IF Contains(duration, Marker48Hours) \/ Contains(duration, Marker2Days) THEN 1
    ELSE 0

AgeWeight(age) == IF age # 0 /\ age >= 7 THEN 1 ELSE 0

BreedWeight(breed) ==
    IF breed # <<>> /\ \E v \in breed_vulnerabilities : Contains(breed, v) THEN 1 ELSE 0

\* weight_adjustment as computed from the symptom payload
weight_adjustment(symptom_structured) ==
    DurationWeight(Get(symptom_structured, "duration", <<>>))
    + AgeWeight(Get(symptom_structured, "age", 0))
    + BreedWeight(Get(symptom_structured, "breed", <<>>))

\* weight_reasons, one tag per rule that fired, in the order the rules run
weight_reasons(symptom_structured) ==
    (IF DurationWeight(Get(symptom_structured, "duration", <<>>)) = 2 THEN <<"duration_7d">>
     ELSE IF DurationWeight(Get(symptom_structured, "duration", <<>>)) = 1 THEN <<"duration_48h">>
     ELSE <<>>)
    \o (IF AgeWeight(Get(symptom_structured, "age", 0)) = 1 THEN <<"senior">> ELSE <<>>)
    \o (IF BreedWeight(Get(symptom_structured, "breed", <<>>)) = 1 THEN <<"breed">> ELSE <<>>)

\* valid_levels with one more level accepted
valid_levels_WithUrgent ==
    {TRIAGE_INFO, TRIAGE_LOW, TRIAGE_MODERATE, TRIAGE_HIGH, TRIAGE_EMERGENCY, "URGENT"}

valid_levels == {TRIAGE_INFO, TRIAGE_LOW, TRIAGE_MODERATE, TRIAGE_HIGH, TRIAGE_EMERGENCY}

RedFlagTags == {"bleeding", "seizure", "collapse", "difficulty_breathing", "unconscious"}

\* FinalScore without the upper bound
FinalScore_NoCeiling(base_score, weight) == Max(0, base_score + weight)

FinalScore(base_score, weight) == Min(5, Max(0, base_score + weight))

\* ActColor without the red-flag test
ActColor_ScoreOnly(final_score, red_flags) ==
    IF final_score >= 4 THEN "Red"
    ELSE IF final_score >= 3 THEN "Orange"
    ELSE IF final_score >= 1 THEN "Yellow"
    ELSE "Green"

\* ActColor with the Orange and Yellow branches exchanged
ActColor_OrangeYellowExchanged(final_score, red_flags) ==
    IF final_score >= 4 \/ (RedFlagTags \cap red_flags # {}) THEN "Red"
    ELSE IF final_score >= 3 THEN "Yellow"
    ELSE IF final_score >= 1 THEN "Orange"
    ELSE "Green"

ActColor(final_score, red_flags) ==
    IF final_score >= 4 \/ (RedFlagTags \cap red_flags # {}) THEN "Red"
    ELSE IF final_score >= 3 THEN "Orange"
    ELSE IF final_score >= 1 THEN "Yellow"
    ELSE "Green"

_triage_agent_function(symptom_data, medical_data, resp) ==
    LET symptom_structured == Get(symptom_data, "structured_data", <<>>)
        weight == weight_adjustment(symptom_structured)
        base_score == Get(resp.data, "base_score", Get(resp.data, "urgency_score", 0))
        final_score == FinalScore(base_score, weight)
        level == IF Get(resp.data, "triage_level", "None") \notin valid_levels
                 THEN TRIAGE_INFO
                 ELSE resp.data.triage_level
    IN  CASE resp.kind = "json" ->
                Envelope(OUTPUT_KEY_TRIAGE,
                         Update(resp.data,
                                [triage_level |-> level,
                                 urgency_score |-> final_score,
                                 base_score |-> base_score,
                                 weight_adjustment |-> weight,
                                 pshvm_factors |-> weight_reasons(symptom_structured),
                                 act_color |-> ActColor(final_score,
                                                        Get(symptom_structured, "red_flags", {}))]))
          [] resp.kind = "bad_json" ->
                Envelope(OUTPUT_KEY_TRIAGE,
                         [urgency_score |-> 0,
                          base_score |-> 0,
                          weight_adjustment |-> 0,
                          triage_level |-> TRIAGE_INFO,
                          act_color |-> "Green",
                          justification |-> "",
                          risk_assessment |-> "",
                          pshvm_factors |-> <<>>,
                          time_sensitivity |-> "None"])
          [] OTHER -> Raised

-----------------------------------------------------------------------------
(* agents/collaborative_agent.py *)

\* risk_mapping with "Emergency" left out of the table
\* risk_mapping with low mapped to INFO
risk_mapping_LowIsInfo(medical_risk) ==
    CASE medical_risk = "low" -> "INFO"
      [] medical_risk = "medium" -> "MODERATE"
      [] medical_risk = "high" -> "HIGH"
      [] medical_risk = "Emergency" -> "EMERGENCY"
      [] OTHER -> "MODERATE"

risk_mapping_NoEmergency(medical_risk) ==
    CASE medical_risk = "low" -> "LOW"
      [] medical_risk = "medium" -> "MODERATE"
      [] medical_risk = "high" -> "HIGH"
      [] OTHER -> "MODERATE"

risk_mapping(medical_risk) ==
    CASE medical_risk = "low" -> "LOW"
      [] medical_risk = "medium" -> "MODERATE"
      [] medical_risk = "high" -> "HIGH"
      [] medical_risk = "Emergency" -> "EMERGENCY"
      [] OTHER -> "MODERATE"

\* discrepancy_type with the triage_higher test made first
discrepancy_type_TriageFirst(medical_triage_equivalent, triage_level) ==
    IF medical_triage_equivalent # triage_level THEN
        IF \/ triage_level = "EMERGENCY"
           \/ (triage_level = "HIGH" /\ medical_triage_equivalent \in {"LOW", "MODERATE"})
        THEN "triage_higher"
        ELSE IF \/ medical_triage_equivalent = "EMERGENCY"
                \/ (medical_triage_equivalent = "HIGH" /\ triage_level = "LOW")
        THEN "medical_higher"
        ELSE "moderate_mismatch"
    ELSE "None"

discrepancy_type(medical_triage_equivalent, triage_level) ==
    IF medical_triage_equivalent # triage_level THEN
        IF \/ (medical_triage_equivalent = "EMERGENCY" /\ triage_level # "EMERGENCY")
           \/ (medical_triage_equivalent = "HIGH" /\ triage_level \in {"LOW", "MODERATE"})
        THEN "medical_higher"
        ELSE IF \/ (triage_level = "EMERGENCY" /\ medical_triage_equivalent # "EMERGENCY")
                \/ (triage_level = "HIGH" /\ medical_triage_equivalent \in {"LOW", "MODERATE"})
        THEN "triage_higher"
        ELSE "moderate_mismatch"
    ELSE "None"

\* needs_review with the score test written > 3
needs_review_Above3(has_discrepancy, triage_score) == has_discrepancy \/ triage_score > 3

needs_review(has_discrepancy, triage_score) == has_discrepancy \/ triage_score >= 3

detect_discrepancies(medical_data, triage_data) ==
    LET medical_structured == Get(medical_data, "structured_data", <<>>)
        triage_structured == Get(triage_data, "structured_data", <<>>)
        medical_risk == Get(medical_structured, "riskLevel", "medium")
        triage_level == Get(triage_structured, "triage_level", "MODERATE")
        triage_score == Get(triage_structured, "urgency_score", 2)
        medical_triage_equivalent == risk_mapping(medical_risk)
        has_discrepancy == medical_triage_equivalent # triage_level
    IN  [has_discrepancies |-> has_discrepancy,
         discrepancy_type |-> discrepancy_type(medical_triage_equivalent, triage_level),
         medical_risk |-> medical_risk,
         medical_triage_equivalent |-> medical_triage_equivalent,
         triage_level |-> triage_level,
         triage_score |-> triage_score,
         needs_review |-> needs_review(has_discrepancy, triage_score)]

risk_hierarchy(risk) ==
    CASE risk = "low" -> 1
      [] risk = "medium" -> 2
      [] risk = "high" -> 3
      [] risk = "Emergency" -> 4
      [] OTHER -> 2

\* confidence_score in hundredths; the tiers are "high" and "medium" in Korean
confidence_score(confidence_level) ==
    IF confidence_level = "nopeum" THEN 90
    ELSE IF confidence_level = "junggan" THEN 75
    ELSE 60

\* final_risk after the `if discrepancy_analysis["has_discrepancies"]` block
final_risk_level(has_discrepancies, review_result, medical_risk) ==
    LET final_risk == Get(review_result, "recommended_risk_level", medical_risk)
    IN  IF has_discrepancies /\ risk_hierarchy(medical_risk) > risk_hierarchy(final_risk)
        THEN medical_risk
        ELSE final_risk

\* reviewed_triage_score without the max against the triage score
reviewed_triage_score_NoMax(has_discrepancies, review_result, triage_score) ==
    Get(review_result, "recommended_triage_score", triage_score)

\* final_triage_score after the same block, before the clamp
reviewed_triage_score(has_discrepancies, review_result, triage_score) ==
    LET final_triage_score == Get(review_result, "recommended_triage_score", triage_score)
    IN  IF has_discrepancies
        THEN Max(final_triage_score, triage_score)
        ELSE final_triage_score

\* clamp_score without the lower bound
clamp_score_NoFloor(score) == Min(5, score)

\* min(5, max(0, final_triage_score))
clamp_score(score) == Min(5, Max(0, score))

\* consensus_reached with a missing agreement field taken as agreement
consensus_reached_DefaultAgrees(has_discrepancies, review_result) ==
    ~has_discrepancies \/ Get(review_result, "agreement_with_medical", TRUE)

\* not has_discrepancies or review_result.get("agreement_with_medical", False)
consensus_reached(has_discrepancies, review_result) ==
    ~has_discrepancies \/ Get(review_result, "agreement_with_medical", FALSE)

\* the dict built on the reviewed path
reviewed_consensus(discrepancy_analysis, review_result, medical_structured, triage_structured, model_name) ==
    LET medical_risk == Get(medical_structured, "riskLevel", "medium")
        triage_score == Get(triage_structured, "urgency_score", 2)
        has_d == discrepancy_analysis.has_discrepancies
    IN  [consensus_reached |-> consensus_reached(has_d, review_result),
         final_risk_level |-> final_risk_level(has_d, review_result, medical_risk),
         final_triage_score |->
            clamp_score(reviewed_triage_score(has_d, review_result, triage_score)),
         final_triage_level |->
            Get(review_result, "recommended_triage_level",
                Get(triage_structured, "triage_level", "MODERATE")),
         confidence_score |-> confidence_score(Get(review_result, "confidence_level", "None")),
         reviewer_model |-> model_name]

\* the dict returned without a review
fast_path_consensus(medical_data, triage_data) ==
    [consensus_reached |-> TRUE,
     final_risk_level |->
        Get(Get(medical_data, "structured_data", <<>>), "riskLevel", "medium"),
     final_triage_score |->
        Get(Get(triage_data, "structured_data", <<>>), "urgency_score", 2),
     confidence_score |-> 80]

\* fallback_consensus with consensus_reached fixed to true
fallback_consensus_AlwaysReached(discrepancy_analysis, medical_structured, triage_structured) ==
    [consensus_reached |-> TRUE,
     final_risk_level |-> Get(medical_structured, "riskLevel", "medium"),
     final_triage_score |-> Get(triage_structured, "urgency_score", 2),
     final_triage_level |-> Get(triage_structured, "triage_level", "MODERATE"),
     confidence_score |-> 70]

\* the dict returned when the reviewer's answer is not valid JSON
fallback_consensus(discrepancy_analysis, medical_structured, triage_structured) ==
    [consensus_reached |-> ~discrepancy_analysis.has_discrepancies,
     final_risk_level |-> Get(medical_structured, "riskLevel", "medium"),
     final_triage_score |-> Get(triage_structured, "urgency_score", 2),
     final_triage_level |-> Get(triage_structured, "triage_level", "MODERATE"),
     confidence_score |-> 70]

\* calls_reviewer with the early return removed
calls_reviewer_Always(discrepancy_analysis) == TRUE

\* whether the function reaches llm.invoke
calls_reviewer(discrepancy_analysis) == discrepancy_analysis.needs_review

CollaborativeResult(discrepancy_analysis, review_result, consensus) ==
    Envelope("collaborative_result",
             [discrepancy_analysis |-> discrepancy_analysis,
              review_result |-> review_result,
              consensus |-> consensus])

\* [value, llm_calls]: the value returned (Raised when the function raises)
\* and the number of llm.invoke calls made. use_claude is
\* settings.anthropic_api_key is not None; resp is the reviewer's answer.
_collaborative_agent_function(symptom_data, medical_data, triage_data, use_claude, resp) ==
    LET discrepancy_analysis == detect_discrepancies(medical_data, triage_data)
        model_name == IF use_claude THEN "Claude Sonnet 4" ELSE "GPT-4o"
        medical_structured == Get(medical_data, "structured_data", <<>>)
        triage_structured == Get(triage_data, "structured_data", <<>>)
    IN  IF ~calls_reviewer(discrepancy_analysis) THEN
            [value |-> CollaborativeResult(discrepancy_analysis, None,
                                           fast_path_consensus(medical_data, triage_data)),
             llm_calls |-> 0]
        ELSE CASE resp.kind = "json" ->
                    [value |-> CollaborativeResult(
                                   discrepancy_analysis, Some(resp.data),
                                   reviewed_consensus(discrepancy_analysis, resp.data,
                                                      medical_structured, triage_structured,
                                                      model_name)),
                     llm_calls |-> 1]
               [] resp.kind = "bad_json" ->
                    [value |-> CollaborativeResult(
                                   discrepancy_analysis, None,
                                   fallback_consensus(discrepancy_analysis, medical_structured,
                                                      triage_structured)),
                     llm_calls |-> 1]
               [] OTHER -> [value |-> Raised, llm_calls |-> 1]

-----------------------------------------------------------------------------
(* tools/report_builder.py *)

build_final_report(symptom, vision, medical, triage, careplan) ==
    LET symptom_data == Get(symptom, "structured_data", <<>>)
        vision_data == IF vision # None THEN Get(vision[1], "structured_data", <<>>) ELSE <<>>
        medical_data == Get(medical, "structured_data", <<>>)
        triage_data == Get(triage, "structured_data", <<>>)
        careplan_data == Get(careplan, "structured_data", <<>>)
        report ==
            [meta |-> [version |-> "v1"],
             patient |-> [species |-> Get(symptom_data, "species", "None"),
                          breed |-> Get(symptom_data, "breed", "None"),
                          age |-> Get(symptom_data, "age", "None")],
             summary |-> [main_symptoms |-> Get(symptom_data, "main_symptoms", <<>>),
                          duration |-> Get(symptom_data, "duration", "None")],
             triage |-> [urgency_score |-> Get(triage_data, "urgency_score", 0),
                         triage_level |-> Get(triage_data, "triage_level", "INFO"),
                         justification |-> Get(triage_data, "justification", "")],
             differential_diagnosis |-> Get(medical_data, "differential_diagnosis", <<>>),
             care_plan |-> [home_care_instructions |->
                                Get(careplan_data, "home_care_instructions", <<>>),
                            when_to_see_vet |-> Get(careplan_data, "when_to_see_vet", "")],
             red_flags |-> Get(symptom_data, "red_flags", {})]
    IN  IF Get(vision_data, "has_images", FALSE) = TRUE
        THEN Update(report,
                    [vision_analysis |->
                        [visual_findings |-> Get(vision_data, "visual_findings", <<>>),
                         wound_detected |-> Get(vision_data, "wound_detected", FALSE)]])
        ELSE report

-----------------------------------------------------------------------------
(* shared/types.py *)

GraphState(user_input, image_refs) ==
    [symptom_data |-> None,
     vision_data |-> None,
     medical_data |-> None,
     triage_data |-> None,
     careplan_data |-> None,
     final_report |-> None,
     image_refs |-> image_refs,
     user_input |-> user_input]

TriageResponse(success, report, error) ==
    [success |-> success, report |-> report, error |-> error]

\* bool(x) of an Optional[list]: None and [] are false
Truthy(opt_list) == opt_list # None /\ opt_list[1] # <<>>

-----------------------------------------------------------------------------
(* agents/root_orchestrator.py *)

\* safe_state.get("image_refs", []) with safe_state = model_dump(exclude_none=True)
safe_image_refs(st) == IF st.image_refs = None THEN <<>> ELSE st.image_refs[1]

\* Branch with the medical check placed before the vision check.
Branch_MedicalBeforeVision(st) ==
    IF st.symptom_data = None THEN "symptom_intake"
    ELSE IF st.medical_data = None THEN "medical_analysis"
    ELSE IF st.vision_data = None /\ safe_image_refs(st) # <<>> THEN "vision_analysis"
    ELSE IF st.triage_data = None THEN "triage"
    ELSE IF st.careplan_data = None THEN "careplan"
    ELSE IF st.final_report = None THEN "final_report"
    ELSE "fallback"

\* Branch with the triage check made before the medical check.
Branch_TriageBeforeMedical(st) ==
    IF st.symptom_data = None THEN "symptom_intake"
    ELSE IF st.vision_data = None /\ safe_image_refs(st) # <<>> THEN "vision_analysis"
    ELSE IF st.triage_data = None THEN "triage"
    ELSE IF st.medical_data = None THEN "medical_analysis"
    ELSE IF st.careplan_data = None THEN "careplan"
    ELSE IF st.final_report = None THEN "final_report"
    ELSE "fallback"

\* Branch with the vision check looking at vision_data alone.
Branch_VisionIgnoresImageRefs(st) ==
    IF st.symptom_data = None THEN "symptom_intake"
    ELSE IF st.vision_data = None THEN "vision_analysis"
    ELSE IF st.medical_data = None THEN "medical_analysis"
    ELSE IF st.triage_data = None THEN "triage"
    ELSE IF st.careplan_data = None THEN "careplan"
    ELSE IF st.final_report = None THEN "final_report"
    ELSE "fallback"

\* The branch root_orchestrator takes for a state: the first of the six
\* `if` statements whose condition holds, or the fallback after them.
Branch(st) ==
    IF st.symptom_data = None THEN "symptom_intake"
    ELSE IF st.vision_data = None /\ safe_image_refs(st) # <<>> THEN "vision_analysis"
    ELSE IF st.medical_data = None THEN "medical_analysis"
    ELSE IF st.triage_data = None THEN "triage"
    ELSE IF st.careplan_data = None THEN "careplan"
    ELSE IF st.final_report = None THEN "final_report"
    ELSE "fallback"

\* Invokes with the collaborative agent called after the triage agent.
Invokes_ConsensusAfterTriage(branch) ==
    CASE branch = "symptom_intake" -> <<"symptom_intake_tool">>
      [] branch = "vision_analysis" -> <<"vision_analysis_tool">>
      [] branch = "medical_analysis" -> <<"medical_analysis_tool">>
      [] branch = "triage" -> <<"triage_agent_tool", "collaborative_agent_tool">>
      [] branch = "careplan" -> <<"careplan_agent_tool">>
      [] branch = "final_report" -> <<"build_final_report">>
      [] OTHER -> <<>>

\* The callables a branch invokes, in order.
Invokes(branch) ==
    CASE branch = "symptom_intake" -> <<"symptom_intake_tool">>
      [] branch = "vision_analysis" -> <<"vision_analysis_tool">>
      [] branch = "medical_analysis" -> <<"medical_analysis_tool">>
      [] branch = "triage" -> <<"triage_agent_tool">>
      [] branch = "careplan" -> <<"careplan_agent_tool">>
      [] branch = "final_report" -> <<"build_final_report">>
      [] OTHER -> <<>>

\* The value the branch's callable returns (Raised when it raises).
Invoke(st, branch, resp) ==
    CASE branch = "symptom_intake" -> _symptom_intake_function(resp)
      [] branch = "vision_analysis" ->
            _vision_analysis_function(st.symptom_data[1], safe_image_refs(st), resp)
      [] branch = "medical_analysis" ->
            _medical_analysis_function(st.symptom_data[1], st.vision_data, resp)
      [] branch = "triage" ->
            _triage_agent_function(st.symptom_data[1], st.medical_data[1], resp)
      [] branch = "careplan" ->
            _careplan_agent_function(st.symptom_data[1], st.medical_data[1],
                                     st.triage_data[1], resp)
      [] branch = "final_report" ->
            build_final_report(st.symptom_data[1], st.vision_data, st.medical_data[1],
                               st.triage_data[1], st.careplan_data[1])
      [] OTHER -> st.final_report[1]

\* The llm.invoke calls one call of root_orchestrator makes: one by the
\* stage function of its branch (the vision stage returns before its call
\* when it is given no image), none by build_final_report and none by the
\* fallback.
Asked(st, resp) ==
    IF \/ Branch(st) \in {"symptom_intake", "medical_analysis", "triage", "careplan"}
       \/ (Branch(st) = "vision_analysis" /\ safe_image_refs(st) # <<>>)
    THEN <<Answer(Branch(st), resp)>>
    ELSE <<>>

\* root_orchestrator writing the stage's output into the state it was given
root_orchestrator_StoresResult(st, resp) ==
    LET branch == Branch(st)
        value == Invoke(st, branch, resp)
    IN  IF IsRaised(value)
        THEN [raised |-> TRUE, invoked |-> Invokes(branch), ret |-> <<>>, state |-> st]
        ELSE [raised |-> FALSE, invoked |-> Invokes(branch),
              ret |-> [status |-> "in_progress", step |-> branch],
              state |-> [st EXCEPT !.final_report = Some(value)]]

\* One call root_orchestrator(state, user_input) where the stage's LLM
\* answers resp: [raised, invoked, ret], ret the dict returned.
root_orchestrator(st, resp) ==
    LET branch == Branch(st)
        value == Invoke(st, branch, resp)
        ret ==
            CASE branch = "symptom_intake" ->
                    [status |-> "in_progress", step |-> branch, symptom_data |-> value]
              [] branch = "vision_analysis" ->
                    [status |-> "in_progress", step |-> branch, vision_data |-> value]
              [] branch = "medical_analysis" ->
                    [status |-> "in_progress", step |-> branch, medical_data |-> value]
              [] branch = "triage" ->
                    [status |-> "in_progress", step |-> branch, triage_data |-> value]
              [] branch = "careplan" ->
                    [status |-> "in_progress", step |-> branch, careplan_data |-> value]
              [] OTHER -> [status |-> "complete", report |-> value]
    IN  IF IsRaised(value)
        THEN [raised |-> TRUE, invoked |-> Invokes(branch), ret |-> <<>>, state |-> st]
        ELSE [raised |-> FALSE, invoked |-> Invokes(branch), ret |-> ret, state |-> st]

-----------------------------------------------------------------------------
(* What the external LLMs may answer *)

\* how far outside the 0..5 scale a score written by an LLM is taken
MaxOver == 1

LLMScores == (0 - MaxOver)..(5 + MaxOver)

Bulldog == <<"bul", "dog">>

\* "8 days running", "7 days", "12 days"
Dur8Days == <<"8", "il", "jjae">>

Dur7Days == <<"7", "il">>

Dur12Days == <<"1", "2", "il">>

SymptomPayloads ==
    { [species |-> "dog", main_symptoms |-> <<"vomiting">>, age |-> 9,
       breed |-> <<"french", " ">> \o Bulldog, duration |-> Dur8Days, red_flags |-> {}],
      [species |-> "cat", main_symptoms |-> <<"seizure">>, age |-> 3,
       breed |-> <<"mix">>, duration |-> Dur7Days, red_flags |-> {"seizure"}],
      [species |-> "dog", main_symptoms |-> <<"cough">>, age |-> 7,
       duration |-> Dur12Days, red_flags |-> {"gyeongryeon"}],
      [main_symptoms |-> <<"itching">>] }

SymptomResponses == {LLMJson(p) : p \in SymptomPayloads} \cup {LLMBadJson, LLMError}

VisionResponses ==
    { LLMJson([has_images |-> TRUE, visual_findings |-> <<"wound">>, wound_detected |-> TRUE]),
      LLMJson([visual_findings |-> <<"swelling">>]),
      LLMBadJson, LLMError }

\* riskLevel as the medical LLM writes it: one of the four labels of the
\* prompt, another string, null, or no riskLevel at all
RiskLabels == {"low", "medium", "high", "Emergency"}

MedicalResponses ==
    {LLMJson([primary_assessment |-> "gastritis", riskLevel |-> r]) :
        r \in RiskLabels \cup {"critical", "None"}}
    \cup {LLMJson([primary_assessment |-> "gastritis"]), LLMBadJson, LLMError}

TriageJson(scores) ==
    {LLMJson([urgency_score |-> u, triage_level |-> l]) :
        u \in scores, l \in valid_levels \cup {"URGENT"}}
    \cup {LLMJson([urgency_score |-> u, base_score |-> b, triage_level |-> TRIAGE_HIGH]) :
            u \in {5}, b \in scores}
    \cup {LLMJson([justification |-> "none"])}

TriageResponses == TriageJson(LLMScores) \cup {LLMBadJson, LLMError}

CareplanResponses ==
    { LLMJson([home_care_instructions |-> <<"rest">>, when_to_see_vet |-> "24h"]),
      LLMJson([supportive_message |-> "ok"]),
      LLMBadJson, LLMError }

\* The answers the LLM behind a branch's stage may give; the report
\* builder and the fallback call no LLM.
Responses(branch) ==
    CASE branch = "symptom_intake" -> SymptomResponses
      [] branch = "vision_analysis" -> VisionResponses
      [] branch = "medical_analysis" -> MedicalResponses
      [] branch = "triage" -> TriageResponses
      [] branch = "careplan" -> CareplanResponses
      [] OTHER -> {LLMBadJson}

-----------------------------------------------------------------------------
(* OrchSpec: one call of root_orchestrator on any GraphState *)

SampleSymptom == _symptom_intake_function(LLMJson([main_symptoms |-> <<"cough">>, age |-> 8]))

SampleVision == _vision_analysis_function(SampleSymptom, <<"img1">>, LLMBadJson)

SampleMedical == _medical_analysis_function(SampleSymptom, None, LLMBadJson)

SampleTriage == _triage_agent_function(SampleSymptom, SampleMedical, LLMBadJson)

SampleCareplan ==
    _careplan_agent_function(SampleSymptom, SampleMedical, SampleTriage, LLMBadJson)

SampleReport ==
    build_final_report(SampleSymptom, None, SampleMedical, SampleTriage, SampleCareplan)

ImageRefs == {None, Some(<<>>), Some(<<"img1">>), Some(<<"img1", "img2">>)}

\* every GraphState: slots set or not independently of each other
GraphStates ==
    [symptom_data : {None, Some(SampleSymptom)},
     vision_data : {None, Some(SampleVision)},
     medical_data : {None, Some(SampleMedical)},
     triage_data : {None, Some(SampleTriage)},
     careplan_data : {None, Some(SampleCareplan)},
     final_report : {None, Some(SampleReport)},
     image_refs : ImageRefs,
     user_input : {"user_input"}]

Idle ==
    /\ cin = <<>>
    /\ analysis = None
    /\ cout = None
    /\ reviewerCalls = 0
    /\ llm = <<>>

OrchInit ==
    /\ state \in GraphStates
    /\ image_urls = None
    /\ pc = "call"
    /\ result = None
    /\ log = <<>>
    /\ response = None
    /\ Idle

\* root_orchestrator(state, user_input)
OrchCall ==
    /\ pc = "call"
    /\ \E resp \in Responses(Branch(state)) :
        LET r == root_orchestrator(state, resp)
        IN  /\ result' = Some(r)
            /\ log' = log \o r.invoked
            /\ llm' = llm \o Asked(state, resp)
            /\ state' = r.state
    /\ pc' = "returned"
    /\ UNCHANGED <<image_urls, response, cin, analysis, cout, reviewerCalls>>

OrchNext == OrchCall

OrchSpec == OrchInit /\ [][OrchNext]_vars

-----------------------------------------------------------------------------
(* Claims about one call of root_orchestrator (OrchSpec) *)

StageOrder ==
    <<"symptom_intake", "vision_analysis", "medical_analysis", "triage", "careplan",
      "final_report">>

SlotOf ==
    [symptom_intake |-> "symptom_data", vision_analysis |-> "vision_data",
     medical_analysis |-> "medical_data", triage |-> "triage_data",
     careplan |-> "careplan_data", final_report |-> "final_report"]

ToolOf ==
    [symptom_intake |-> "symptom_intake_tool", vision_analysis |-> "vision_analysis_tool",
     medical_analysis |-> "medical_analysis_tool", triage |-> "triage_agent_tool",
     careplan |-> "careplan_agent_tool", final_report |-> "build_final_report"]

ImagesSupplied(st) == st.image_refs # None /\ Len(st.image_refs[1]) > 0

\* the stage's output slot is still absent; vision counts as satisfied
\* when no image refs were supplied
Unsatisfied(st, stage) ==
    /\ st[SlotOf[stage]] = None
    /\ (stage = "vision_analysis" => ImagesSupplied(st))

UnsatisfiedAt(st) == {i \in 1..Len(StageOrder) : Unsatisfied(st, StageOrder[i])}

Returned == pc = "returned" /\ result # None

\* C1: one call of root_orchestrator invokes at most one stage function (or
\* the report builder), and the one it invokes is the first stage, in the
\* order symptom intake, vision, medical, triage, careplan, final report,
\* whose output slot is still absent (vision being satisfied when no image
\* refs were supplied); with every stage satisfied it invokes none.
C1_OneStageEarliestUnsatisfied ==
    Returned =>
        LET U == UnsatisfiedAt(state)
            first == CHOOSE i \in U : \A j \in U : i <= j
        IN  /\ Len(result[1].invoked) <= 1
            /\ (U = {} => result[1].invoked = <<>>)
            /\ (U # {} => result[1].invoked = <<ToolOf[StageOrder[first]]>>)

\* a state with slots set out of order: careplan present, medical absent
C1_Witness ==
    /\ Returned
    /\ state.symptom_data # None
    /\ state.medical_data = None
    /\ state.careplan_data # None
    /\ state.image_refs = Some(<<>>)
    /\ result[1].invoked = <<"medical_analysis_tool">>

InList(x, seq) == \E i \in 1..Len(seq) : seq[i] = x

\* C2: with image_refs absent or empty, root_orchestrator never invokes the
\* vision stage, whether vision_data is absent or present; with image_refs
\* non-empty, symptom_data present and vision_data absent, it invokes the
\* vision stage and not the medical stage.
C2_VisionOnlyWithImages ==
    Returned =>
        /\ (~ImagesSupplied(state) => ~InList("vision_analysis_tool", result[1].invoked))
        /\ (ImagesSupplied(state) /\ state.symptom_data # None /\ state.vision_data = None
                => /\ InList("vision_analysis_tool", result[1].invoked)
                   /\ ~InList("medical_analysis_tool", result[1].invoked))

\* no images, vision_data absent, symptom present: the medical stage runs
C2_Witness ==
    /\ Returned
    /\ state.image_refs = None
    /\ state.vision_data = None
    /\ state.symptom_data # None
    /\ state.medical_data = None
    /\ result[1].invoked = <<"medical_analysis_tool">>

-----------------------------------------------------------------------------
(* TriageSpec: one call of _triage_agent_function on a symptom payload *)

\* "8 days running" (the duration of the spec's example), "one week",
\* "48 hours", "2 days", "3 days"
Dur8DaysRunning == Dur8Days \o <<" ", "ji", "sok">>

DurOneWeek == <<"il", "ju", "il">>

Dur48Hours == <<"4", "8", "si", "gan">>

Dur2Days == <<"2", "il">>

Dur3Days == <<"3", "il">>

FrenchBulldog == <<"french", " ">> \o Bulldog

OptionalKey(k, values) == {<<>>} \cup {[kk \in {k} |-> v] : v \in values}

\* symptom payloads: each of duration, age, breed and red_flags as the
\* symptom LLM may write it, or missing
TriagePayloads ==
    { Update(Update(Update(Update([main_symptoms |-> <<"vomiting">>], d), a), b), rf) :
        d \in OptionalKey("duration", {Dur8DaysRunning, Dur7Days, DurOneWeek, Dur48Hours,
                                       Dur2Days, Dur12Days, Dur3Days}),
        a \in OptionalKey("age", {0, 6, 7, 9}),
        b \in OptionalKey("breed", {Bulldog, FrenchBulldog, <<"mix">>}),
        rf \in OptionalKey("red_flags", {{}, {"gyeongryeon"}, {"vomiting", "bleeding"}}) }

TriageInit ==
    /\ cin \in [symptom_data : {Envelope(OUTPUT_KEY_SYMPTOM_INTAKE, p) : p \in TriagePayloads},
                medical_data : {SampleMedical}]
    /\ pc = "ready"
    /\ cout = None
    /\ llm = <<>>
    /\ analysis = None
    /\ reviewerCalls = 0
    /\ state = GraphState("user_input", None)
    /\ image_urls = None
    /\ result = None
    /\ log = <<>>
    /\ response = None

\* triage_agent_tool.invoke({symptom_data, medical_data})
TriageCall ==
    /\ pc = "ready"
    /\ \E resp \in TriageResponses :
        /\ cout' = Some(_triage_agent_function(cin.symptom_data, cin.medical_data, resp))
        /\ llm' = llm \o <<Answer("triage", resp)>>
    /\ pc' = "returned"
    /\ UNCHANGED <<state, image_urls, result, log, response, cin, analysis, reviewerCalls>>

TriageNext == TriageCall

TriageSpec == TriageInit /\ [][TriageNext]_vars

-----------------------------------------------------------------------------
(* Claims about the triage stage (TriageSpec) *)

TriageReturned == pc = "returned" /\ cout # None /\ ~IsRaised(cout[1])

TriageOut == cout[1].structured_data

TriageAnswer == llm[Len(llm)].resp

\* the LLM's response was parsed
Parsed == TriageReturned /\ TriageAnswer.kind = "json"

SymptomIn == cin.symptom_data.structured_data

\* the four PSHVM rules of the weighting table
PshvmRules == {"duration_7d", "duration_48h", "senior", "breed"}

Has7DayMarker(duration) ==
    Contains(duration, Marker7Days) \/ Contains(duration, MarkerOneWeek)

Has48HourMarker(duration) ==
    Contains(duration, Marker48Hours) \/ Contains(duration, Marker2Days)

RuleFires(rule, duration, age, breed) ==
    CASE rule = "duration_7d" -> Has7DayMarker(duration)
      [] rule = "duration_48h" -> ~Has7DayMarker(duration) /\ Has48HourMarker(duration)
      [] rule = "senior" -> age >= 7
      [] rule = "breed" -> \E v \in breed_vulnerabilities : Contains(breed, v)

RulePoints(rule) == IF rule = "duration_7d" THEN 2 ELSE 1

\* every order in which the four rules can be evaluated
RuleOrders ==
    {o \in [1..4 -> PshvmRules] : \A r \in PshvmRules : \E i \in 1..4 : o[i] = r}

RECURSIVE ApplyRules(_, _, _, _, _)
\* the adjustment accumulated by evaluating the rules order[1], order[2], ...
\* one after the other, starting from total
ApplyRules(order, total, duration, age, breed) ==
    IF order = <<>> THEN total
    ELSE ApplyRules(Tail(order),
                    IF RuleFires(Head(order), duration, age, breed)
                    THEN total + RulePoints(Head(order))
                    ELSE total,
                    duration, age, breed)

\* C13: on a successfully parsed triage response the urgency_score equals
\* clamp(base_score + total_adjustment, 0, 5), where total_adjustment is the
\* sum of the PSHVM rules that fire (+2 for the 7-day duration marker, else
\* +1 for the 48-hour/2-day marker, +1 for age >= 7, +1 for a breed of the
\* vulnerability table); the total is between 0 and 4, is a function of
\* (duration, age, breed) only, and is the same in whatever order the rules
\* are evaluated.
C13_ScoreIsClampedBasePlusWeight ==
    Parsed =>
        LET duration == Get(SymptomIn, "duration", <<>>)
            age == Get(SymptomIn, "age", 0)
            breed == Get(SymptomIn, "breed", <<>>)
            total == TriageOut.weight_adjustment
            base == TriageOut.base_score
        IN  /\ ("base_score" \in DOMAIN TriageAnswer.data => base = TriageAnswer.data.base_score)
            /\ TriageOut.urgency_score =
                    (IF base + total > 5 THEN 5 ELSE IF base + total < 0 THEN 0 ELSE base + total)
            /\ total \in 0..4
            /\ \A o \in RuleOrders : ApplyRules(o, 0, duration, age, breed) = total

\* all three kinds of rule fire and the sum is cut at 5
C13_Witness ==
    /\ Parsed
    /\ Get(SymptomIn, "duration", <<>>) = DurOneWeek
    /\ Get(SymptomIn, "age", 0) = 7
    /\ Get(SymptomIn, "breed", <<>>) = FrenchBulldog
    /\ TriageOut.weight_adjustment = 4
    /\ TriageOut.base_score = 3
    /\ TriageOut.urgency_score = 5

\* C14: for a symptom duration that states 8 days ("8 days running"), age 9
\* and breed bulldog the PSHVM weighting is +2 +1 +1 = +4, and with a base
\* model score of 1 the triage stage yields final urgency score 5 and ACT
\* color Red.
C14_EightDaysExample ==
    /\ Parsed
    /\ Get(SymptomIn, "duration", <<>>) = Dur8DaysRunning
    /\ Get(SymptomIn, "age", 0) = 9
    /\ Get(SymptomIn, "breed", <<>>) = Bulldog
    /\ TriageOut.base_score = 1
    => /\ TriageOut.weight_adjustment = 4
       /\ TriageOut.urgency_score = 5
       /\ TriageOut.act_color = "Red"

\* the color the ACT rule gives a final score and a set of red flags
ActRule(score, red_flags) ==
    IF score >= 4 \/ (\E tag \in RedFlagTags : tag \in red_flags) THEN "Red"
    ELSE IF score >= 3 THEN "Orange"
    ELSE IF score >= 1 THEN "Yellow"
    ELSE "Green"

\* C15 as stated: the ACT color in the triage stage's output is Red if the
\* final urgency score is >= 4 or the symptom red_flags contain any of the
\* fixed red-flag tags, otherwise Orange if the score is >= 3, otherwise
\* Yellow if the score is >= 1, otherwise Green, in every output of the
\* stage.
C15_ActColorEveryOutput ==
    TriageReturned =>
        TriageOut.act_color = ActRule(TriageOut.urgency_score, Get(SymptomIn, "red_flags", {}))

\* C15 as amended: the rule holds in the output built from a successfully
\* parsed response, where a red flag forces Red whatever the score; the
\* output returned on a parse failure has score 0 and color Green whatever
\* the red flags.
C15_ActColorParsedOutput ==
    /\ Parsed =>
            TriageOut.act_color =
                ActRule(TriageOut.urgency_score, Get(SymptomIn, "red_flags", {}))
    /\ TriageReturned /\ TriageAnswer.kind = "bad_json" =>
            /\ TriageOut.urgency_score = 0
            /\ TriageOut.act_color = "Green"

\* a red flag forces Red at a score of 0
C15_Witness ==
    /\ Parsed
    /\ "bleeding" \in Get(SymptomIn, "red_flags", {})
    /\ TriageOut.urgency_score = 0
    /\ TriageOut.act_color = "Red"

Severity(color) ==
    CASE color = "Green" -> 0
      [] color = "Yellow" -> 1
      [] color = "Orange" -> 2
      [] color = "Red" -> 3

\* parsed responses that differ in the score only
ScoreResponses == {LLMJson([urgency_score |-> u, triage_level |-> TRIAGE_LOW]) : u \in LLMScores}

\* the output of the stage for the same case and another parsed response
OtherOutput(resp) ==
    _triage_agent_function(cin.symptom_data, cin.medical_data, resp).structured_data

\* C16: with red-flag presence held constant, ACT color severity (Green <
\* Yellow < Orange < Red) is monotone non-decreasing in the final urgency
\* score over 0..5: for scores s1 <= s2, color(s1) is never more severe than
\* color(s2).
C16_ColorMonotoneInScore ==
    Parsed =>
        \A resp \in ScoreResponses :
            TriageOut.urgency_score <= OtherOutput(resp).urgency_score
                => Severity(TriageOut.act_color) <= Severity(OtherOutput(resp).act_color)

\* no red flag: score 2 is Yellow here and score 3 is Orange for the same case
C16_Witness ==
    /\ Parsed
    /\ Get(SymptomIn, "red_flags", {}) = {}
    /\ TriageOut.urgency_score = 2
    /\ TriageOut.act_color = "Yellow"
    /\ \E resp \in ScoreResponses :
            /\ OtherOutput(resp).urgency_score = 3
            /\ OtherOutput(resp).act_color = "Orange"

FiveLevels == {"INFO", "LOW", "MODERATE", "HIGH", "EMERGENCY"}

\* C19: every triage stage output has a triage_level in {INFO, LOW,
\* MODERATE, HIGH, EMERGENCY}: a model-supplied level outside these five (or
\* missing) is coerced to INFO, the least urgent category, without raising;
\* a level among the five is kept.
C19_LevelAmongFive ==
    /\ pc = "returned" /\ TriageAnswer.kind # "error" => TriageReturned
    /\ TriageReturned => TriageOut.triage_level \in FiveLevels
    /\ Parsed =>
            IF /\ "triage_level" \in DOMAIN TriageAnswer.data
               /\ TriageAnswer.data.triage_level \in FiveLevels
            THEN TriageOut.triage_level = TriageAnswer.data.triage_level
            ELSE TriageOut.triage_level = "INFO"

\* the model answers with a level that is not one of the five
C19_Witness ==
    /\ Parsed
    /\ Get(TriageAnswer.data, "triage_level", "None") = "URGENT"
    /\ TriageOut.triage_level = "INFO"

-----------------------------------------------------------------------------
(* CollabSpec: detect_discrepancies and _collaborative_agent_function on  *)
(* the outputs of the medical and triage stages                            *)

CollabSymptom == _symptom_intake_function(LLMJson([main_symptoms |-> <<"cough">>, age |-> 8]))

\* what the medical stage can return
MedicalOutputs ==
    {_medical_analysis_function(CollabSymptom, None, r) : r \in MedicalResponses \ {LLMError}}

\* what the triage stage can return
TriageOutputs ==
    {_triage_agent_function(CollabSymptom, m, r) :
        m \in MedicalOutputs, r \in TriageResponses \ {LLMError}}

\* the reviewer's JSON: every key may be missing
ReviewPayloads ==
    { Update(Update(Update(a, r), sc), cl) :
        a \in OptionalKey("agreement_with_medical", BOOLEAN),
        r \in OptionalKey("recommended_risk_level", RiskLabels \cup {"critical"}),
        sc \in OptionalKey("recommended_triage_score", LLMScores),
        cl \in OptionalKey("confidence_level", {"nopeum"}) }

ReviewResponses == {LLMJson(p) : p \in ReviewPayloads} \cup {LLMBadJson, LLMError}

CollabInit ==
    /\ cin \in [symptom_data : {CollabSymptom},
                medical_data : MedicalOutputs,
                triage_data : TriageOutputs,
                use_claude : BOOLEAN]
    /\ analysis = None
    /\ cout = None
    /\ reviewerCalls = 0
    /\ pc = "ready"
    /\ state = GraphState("user_input", None)
    /\ image_urls = None
    /\ result = None
    /\ log = <<>>
    /\ response = None
    /\ llm = <<>>

\* detect_discrepancies(medical_data, triage_data)
Detect ==
    /\ pc = "ready"
    /\ analysis' = Some(detect_discrepancies(cin.medical_data, cin.triage_data))
    /\ pc' = "detected"
    /\ UNCHANGED <<state, image_urls, result, log, response, cin, cout, reviewerCalls, llm>>

\* collaborative_agent_tool.invoke({symptom_data, medical_data, triage_data})
Collaborate ==
    /\ pc = "ready"
    /\ \E resp \in ReviewResponses :
        LET r == _collaborative_agent_function(cin.symptom_data, cin.medical_data,
                                               cin.triage_data, cin.use_claude, resp)
        IN  /\ cout' = Some(r.value)
            /\ reviewerCalls' = reviewerCalls + r.llm_calls
            /\ llm' = IF r.llm_calls = 0 THEN llm ELSE llm \o <<Answer("reviewer", resp)>>
    /\ pc' = "returned"
    /\ UNCHANGED <<state, image_urls, result, log, response, cin, analysis>>

CollabNext == Detect \/ Collaborate

CollabSpec == CollabInit /\ [][CollabNext]_vars

-----------------------------------------------------------------------------
(* Claims about detect_discrepancies (CollabSpec) *)

Detected == pc = "detected" /\ analysis # None

MedicalRisk == Get(cin.medical_data.structured_data, "riskLevel", "medium")

TriageLevel == cin.triage_data.structured_data["triage_level"]

TriageScore == cin.triage_data.structured_data["urgency_score"]

\* C6: detect_discrepancies returns needs_review = true whenever
\* has_discrepancies is true and whenever the triage urgency score is >= 3;
\* needs_review is false exactly when there is no discrepancy and the score
\* is below 3.
C6_NeedsReview ==
    Detected =>
        LET a == analysis[1]
        IN  /\ (a.has_discrepancies => a.needs_review)
            /\ (TriageScore >= 3 => a.needs_review)
            /\ (~a.needs_review <=> (~a.has_discrepancies /\ TriageScore < 3))

\* review needed for the score alone: score 3, no discrepancy
C6_Witness ==
    /\ Detected
    /\ ~analysis[1].has_discrepancies
    /\ TriageScore = 3
    /\ analysis[1].needs_review

\* C7: detect_discrepancies maps the medical risk label onto the triage
\* scale by the lookup low -> LOW, medium -> MODERATE, high -> HIGH,
\* Emergency -> EMERGENCY, and has_discrepancies is true exactly when the
\* mapped level differs from the triage-assigned level.
C7_MappingAndDiscrepancy ==
    Detected =>
        LET a == analysis[1]
        IN  /\ (MedicalRisk = "low" => a.medical_triage_equivalent = "LOW")
            /\ (MedicalRisk = "medium" => a.medical_triage_equivalent = "MODERATE")
            /\ (MedicalRisk = "high" => a.medical_triage_equivalent = "HIGH")
            /\ (MedicalRisk = "Emergency" => a.medical_triage_equivalent = "EMERGENCY")
            /\ (a.has_discrepancies <=> a.medical_triage_equivalent # TriageLevel)

\* Emergency against EMERGENCY: mapped, and no discrepancy
C7_Witness ==
    /\ Detected
    /\ MedicalRisk = "Emergency"
    /\ TriageLevel = "EMERGENCY"
    /\ analysis[1].medical_triage_equivalent = "EMERGENCY"
    /\ ~analysis[1].has_discrepancies

\* C8: when a discrepancy exists the direction is medical_higher if the
\* mapped medical level is EMERGENCY and triage is not, or the mapped medical
\* level is HIGH while triage is LOW or MODERATE; triage_higher in the
\* symmetric case; moderate_mismatch otherwise; with no discrepancy the
\* direction is none. Medical risk Emergency with triage level LOW gives
\* discrepancy true, direction medical_higher, needs_review true.
C8_Direction ==
    Detected =>
        LET a == analysis[1]
            m == a.medical_triage_equivalent
            t == TriageLevel
            medicalHigher ==
                (m = "EMERGENCY" /\ t # "EMERGENCY") \/ (m = "HIGH" /\ t \in {"LOW", "MODERATE"})
            triageHigher ==
                (t = "EMERGENCY" /\ m # "EMERGENCY") \/ (t = "HIGH" /\ m \in {"LOW", "MODERATE"})
        IN  /\ (~a.has_discrepancies => a.discrepancy_type = "None")
            /\ (a.has_discrepancies /\ medicalHigher => a.discrepancy_type = "medical_higher")
            /\ (a.has_discrepancies /\ triageHigher => a.discrepancy_type = "triage_higher")
            /\ (a.has_discrepancies /\ ~medicalHigher /\ ~triageHigher
                    => a.discrepancy_type = "moderate_mismatch")
            /\ (MedicalRisk = "Emergency" /\ t = "LOW"
                    => /\ a.has_discrepancies
                       /\ a.discrepancy_type = "medical_higher"
                       /\ a.needs_review)

\* the example of the claim: Emergency against LOW
C8_Witness ==
    /\ Detected
    /\ MedicalRisk = "Emergency"
    /\ TriageLevel = "LOW"
    /\ analysis[1].discrepancy_type = "medical_higher"

-----------------------------------------------------------------------------
(* Claims about _collaborative_agent_function (CollabSpec) *)

CollabReturned == pc = "returned" /\ cout # None /\ ~IsRaised(cout[1])

Consensus == cout[1].structured_data.consensus

Discrepancy == cout[1].structured_data.discrepancy_analysis

ReviewResult == cout[1].structured_data.review_result

\* ordinal of a risk label: low = 1, medium = 2, high = 3, emergency = 4;
\* any other label counts as medium
RiskOrdinal(risk) ==
    CASE risk = "low" -> 1
      [] risk = "high" -> 3
      [] risk = "Emergency" -> 4
      [] OTHER -> 2

\* ordinal of a triage level on the same scale, INFO below low
LevelOrdinal(level) ==
    CASE level = "INFO" -> 0
      [] level = "LOW" -> 1
      [] level = "MODERATE" -> 2
      [] level = "HIGH" -> 3
      [] level = "EMERGENCY" -> 4

\* C3: whenever detect_discrepancies flags a discrepancy, the consensus
\* final_risk_level has an ordinal greater than or equal to both the medical
\* risk ordinal and the ordinal of the original triage level, for every
\* reviewer recommendation and also when the reviewer output is malformed.
C3_NeverDeescalates ==
    CollabReturned /\ Discrepancy.has_discrepancies =>
        /\ RiskOrdinal(Consensus.final_risk_level) >= RiskOrdinal(MedicalRisk)
        /\ RiskOrdinal(Consensus.final_risk_level) >= LevelOrdinal(TriageLevel)

C9_FastPath ==
    pc = "returned" =>
        LET needs == (risk_mapping(MedicalRisk) # TriageLevel) \/ TriageScore >= 3
        IN  /\ (~needs =>
                    /\ reviewerCalls = 0
                    /\ CollabReturned
                    /\ ReviewResult = None
                    /\ Consensus.final_risk_level = MedicalRisk
                    /\ Consensus.final_triage_score = TriageScore
                    /\ Consensus.confidence_score = 80
                    /\ Consensus.consensus_reached = TRUE)
            /\ (reviewerCalls > 0 => needs)

\* the example of the spec: no discrepancy, triage score 1
C9_Witness ==
    /\ CollabReturned
    /\ ~Discrepancy.has_discrepancies
    /\ TriageScore = 1
    /\ reviewerCalls = 0
    /\ Consensus.final_triage_score = 1

\* C10: on the reviewed path with a discrepancy flagged, final_triage_score
\* is at least min(5, max(reviewer recommended score, original triage
\* score)) and the final risk ordinal is at least max(reviewer recommended
\* risk ordinal, medical risk ordinal); a recommendation the reviewer left
\* out counts as the original value.
C10_AtLeastReviewerAndSources ==
    CollabReturned /\ ReviewResult # None /\ Discrepancy.has_discrepancies =>
        LET recScore == Get(ReviewResult[1], "recommended_triage_score", TriageScore)
            recRisk == Get(ReviewResult[1], "recommended_risk_level", MedicalRisk)
        IN  /\ Consensus.final_triage_score >= Min(5, Max(recScore, TriageScore))
            /\ RiskOrdinal(Consensus.final_risk_level)
                    >= Max(RiskOrdinal(recRisk), RiskOrdinal(MedicalRisk))

\* the reviewer recommends less than both sources and is overruled
C10_Witness ==
    /\ CollabReturned
    /\ ReviewResult # None
    /\ Discrepancy.has_discrepancies
    /\ MedicalRisk = "high"
    /\ Get(ReviewResult[1], "recommended_risk_level", "None") = "low"
    /\ Get(ReviewResult[1], "recommended_triage_score", 5) < TriageScore
    /\ Consensus.final_risk_level = "high"
    /\ Consensus.final_triage_score = TriageScore

\* the reviewer's answer, when the function asked the reviewer
Reviewed == llm # <<>> /\ llm[Len(llm)].stage = "reviewer"

ReviewerAnswer == llm[Len(llm)].resp

\* C11: on the reviewed path, consensus_reached is true exactly when no
\* discrepancy was detected or the reviewer's output states agreement with
\* the medical assessment; a reviewer output without the agreement field
\* counts as not agreeing.
C11_ConsensusReached ==
    pc = "returned" /\ Reviewed /\ ReviewerAnswer.kind = "json" =>
        LET agrees ==
                /\ "agreement_with_medical" \in DOMAIN ReviewerAnswer.data
                /\ ReviewerAnswer.data["agreement_with_medical"] = TRUE
        IN  /\ CollabReturned
            /\ ReviewResult = Some(ReviewerAnswer.data)
            /\ Consensus.consensus_reached = (~Discrepancy.has_discrepancies \/ agrees)

\* a discrepancy, and a reviewer that says nothing about agreement
C11_Witness ==
    /\ CollabReturned
    /\ Reviewed
    /\ ReviewerAnswer.kind = "json"
    /\ Discrepancy.has_discrepancies
    /\ "agreement_with_medical" \notin DOMAIN ReviewerAnswer.data
    /\ Consensus.consensus_reached = FALSE

\* C12: when the reviewer's response is not valid JSON the function does not
\* raise; it returns a consensus with final risk = the medical stage's risk
\* label, final score = the triage stage's score, consensus_reached =
\* not(has_discrepancies) and confidence 0.7, with no review_result.
C12_MalformedReviewerFallback ==
    pc = "returned" /\ Reviewed /\ ReviewerAnswer.kind = "bad_json" =>
        /\ CollabReturned
        /\ ReviewResult = None
        /\ Consensus.final_risk_level = MedicalRisk
        /\ Consensus.final_triage_score = TriageScore
        /\ Consensus.consensus_reached = ~(risk_mapping(MedicalRisk) # TriageLevel)
        /\ Consensus.confidence_score = 70

\* malformed reviewer answer in a case with a discrepancy
C12_Witness ==
    /\ CollabReturned
    /\ Reviewed
    /\ ReviewerAnswer.kind = "bad_json"
    /\ Discrepancy.has_discrepancies
    /\ ReviewResult = None
    /\ Consensus.consensus_reached = FALSE
    /\ Consensus.confidence_score = 70

-----------------------------------------------------------------------------
(* main.py: triage_endpoint, one request (Spec) *)

ImageUrls == {None, Some(<<>>), Some(<<"img1">>)}

\* result.get(key)
OptGet(d, k) == IF k \in DOMAIN d THEN Some(d[k]) ELSE None

\* the state right after `state = GraphState(user_input=..., image_refs=request.image_urls or [])`
Init ==
    /\ image_urls \in ImageUrls
    /\ state = GraphState("user_input",
                          Some(IF Truthy(image_urls) THEN image_urls[1] ELSE <<>>))
    /\ pc = "step1"
    /\ result = None
    /\ log = <<>>
    /\ response = None
    /\ Idle

\* Fails answering success=True
Fails_ReportsSuccess(error) ==
    /\ response' = Some(TriageResponse(TRUE, None, error))
    /\ pc' = "done"
    /\ UNCHANGED state

\* Fails calling the failed stage again instead of answering
Fails_Retries(error) ==
    IF Len(log) < 7
    THEN /\ response' = response
         /\ pc' = pc
         /\ UNCHANGED state
    ELSE /\ response' = Some(TriageResponse(FALSE, None, error))
         /\ pc' = "done"
         /\ UNCHANGED state

\* `except Exception as e: return TriageResponse(success=False, report=None, error=str(e))`
Fails(error) ==
    /\ response' = Some(TriageResponse(FALSE, None, error))
    /\ pc' = "done"
    /\ UNCHANGED state

\* One of steps 1, 3, 4, 5: call root_orchestrator, return a failure unless
\* the status is in_progress, else store result.get(key) in the slot.
RequiredStep(here, key, error, next) ==
    /\ pc = here
    /\ \E resp \in Responses(Branch(state)) :
        LET r == root_orchestrator(state, resp)
        IN  /\ result' = Some(r)
            /\ log' = log \o r.invoked
            /\ llm' = llm \o Asked(state, resp)
            /\ IF r.raised THEN Fails("exception")
               ELSE IF Get(r.ret, "status", "None") # "in_progress" THEN Fails(error)
               ELSE /\ state' = [r.state EXCEPT ![key] = OptGet(r.ret, key)]
                    /\ pc' = next
                    /\ UNCHANGED response
    /\ UNCHANGED <<image_urls, cin, analysis, cout, reviewerCalls>>

Step1SymptomIntake ==
    RequiredStep("step1", "symptom_data", "Unexpected result from symptom intake",
                 IF Truthy(image_urls) THEN "step2" ELSE "step3")

\* Step2Vision storing the vision result in symptom_data as well
Step2Vision_ReplacesSymptom ==
    /\ pc = "step2"
    /\ \E resp \in Responses(Branch(state)) :
        LET r == root_orchestrator(state, resp)
        IN  /\ result' = Some(r)
            /\ log' = log \o r.invoked
            /\ llm' = llm \o Asked(state, resp)
            /\ IF r.raised THEN Fails("exception")
               ELSE /\ state' = IF Get(r.ret, "status", "None") = "in_progress"
                                THEN [r.state EXCEPT !.vision_data = OptGet(r.ret, "vision_data"),
                                                     !.symptom_data = OptGet(r.ret, "vision_data")]
                                ELSE r.state
                    /\ pc' = "step3"
                    /\ UNCHANGED response
    /\ UNCHANGED <<image_urls, cin, analysis, cout, reviewerCalls>>

\* `if request.image_urls:` call, and store vision_data if in_progress
Step2Vision ==
    /\ pc = "step2"
    /\ \E resp \in Responses(Branch(state)) :
        LET r == root_orchestrator(state, resp)
        IN  /\ result' = Some(r)
            /\ log' = log \o r.invoked
            /\ llm' = llm \o Asked(state, resp)
            /\ IF r.raised THEN Fails("exception")
               ELSE /\ state' = IF Get(r.ret, "status", "None") = "in_progress"
                                THEN [r.state EXCEPT !.vision_data = OptGet(r.ret, "vision_data")]
                                ELSE r.state
                    /\ pc' = "step3"
                    /\ UNCHANGED response
    /\ UNCHANGED <<image_urls, cin, analysis, cout, reviewerCalls>>

Step3Medical ==
    RequiredStep("step3", "medical_data", "Unexpected result from medical analysis", "step4")

Step4Triage ==
    RequiredStep("step4", "triage_data", "Unexpected result from triage", "step5")

Step5Careplan ==
    RequiredStep("step5", "careplan_data", "Unexpected result from careplan", "step6")

\* Step6FinalReport storing the report in state.final_report
Step6FinalReport_StoresReport ==
    /\ pc = "step6"
    /\ \E resp \in Responses(Branch(state)) :
        LET r == root_orchestrator(state, resp)
        IN  /\ result' = Some(r)
            /\ log' = log \o r.invoked
            /\ llm' = llm \o Asked(state, resp)
            /\ IF r.raised THEN Fails("exception")
               ELSE IF Get(r.ret, "status", "None") # "complete"
               THEN Fails("Failed to build final report")
               ELSE /\ response' = Some(TriageResponse(TRUE, OptGet(r.ret, "report"), None))
                    /\ pc' = "done"
                    /\ state' = [r.state EXCEPT !.final_report = OptGet(r.ret, "report")]
    /\ UNCHANGED <<image_urls, cin, analysis, cout, reviewerCalls>>

Step6FinalReport ==
    /\ pc = "step6"
    /\ \E resp \in Responses(Branch(state)) :
        LET r == root_orchestrator(state, resp)
        IN  /\ result' = Some(r)
            /\ log' = log \o r.invoked
            /\ llm' = llm \o Asked(state, resp)
            /\ IF r.raised THEN Fails("exception")
               ELSE IF Get(r.ret, "status", "None") # "complete"
               THEN Fails("Failed to build final report")
               ELSE /\ response' = Some(TriageResponse(TRUE, OptGet(r.ret, "report"), None))
                    /\ pc' = "done"
                    /\ state' = r.state
    /\ UNCHANGED <<image_urls, cin, analysis, cout, reviewerCalls>>

Next ==
    \/ Step1SymptomIntake
    \/ Step2Vision
    \/ Step3Medical
    \/ Step4Triage
    \/ Step5Careplan
    \/ Step6FinalReport

Spec == Init /\ [][Next]_vars

-----------------------------------------------------------------------------
(* Claims about a pipeline run (Spec) *)

Count(x, seq) == Cardinality({i \in 1..Len(seq) : seq[i] = x})

Position(x, seq) == CHOOSE i \in 1..Len(seq) : seq[i] = x

\* C5 as stated: a consensus decision is produced exactly once in every
\* pipeline run, after the triage stage has produced its output and before
\* the careplan stage is invoked.
C5_ConsensusOncePerRun ==
    InList("careplan_agent_tool", log) =>
        /\ Count("collaborative_agent_tool", log) = 1
        /\ Position("triage_agent_tool", log) < Position("collaborative_agent_tool", log)
        /\ Position("collaborative_agent_tool", log) < Position("careplan_agent_tool", log)

\* C5 as amended: no consensus decision is produced in a pipeline run;
\* triage_endpoint and root_orchestrator never invoke the collaborative
\* agent, neither between the triage and careplan stages nor elsewhere.
C5_NoConsensusInPipelineRun ==
    /\ ~InList("collaborative_agent_tool", log)
    /\ reviewerCalls = 0
    /\ cout = None

\* a successful run: careplan invoked right after triage
C5_Witness ==
    /\ pc = "done"
    /\ response # None
    /\ response[1].success
    /\ InList("triage_agent_tool", log)
    /\ Position("careplan_agent_tool", log) = Position("triage_agent_tool", log) + 1

Last(seq) == seq[Len(seq)]

\* the last call of root_orchestrator was left by an exception
LastCallRaised == result # None /\ result[1].raised

RequiredSlots == {"symptom_data", "medical_data", "triage_data", "careplan_data"}

\* a report built from the outputs of all the required stages
CompleteReport(report) ==
    /\ report # None
    /\ \A k \in RequiredSlots : state[k] # None
    /\ (Truthy(image_urls) => state.vision_data # None)
    /\ {"patient", "summary", "triage", "differential_diagnosis", "care_plan"}
            \subseteq DOMAIN report[1]
    /\ report[1].triage.urgency_score = state.triage_data[1].structured_data.urgency_score

\* C17: if a stage function raises, root_orchestrator propagates the
\* exception without returning a result, no slot of the pipeline state is
\* changed by the failed step, and triage_endpoint answers success=false,
\* report=null and the error description; no exception escapes the endpoint
\* (a finished request always has a response carrying a success field) and
\* a partially complete report is never returned as final.
C17_FailureIsExplicit ==
    /\ (llm # <<>> /\ Last(llm).resp.kind = "error") => LastCallRaised
    /\ LastCallRaised =>
            /\ result[1].ret = <<>>
            /\ state = result[1].state
            /\ pc = "done"
            /\ response # None
            /\ ~response[1].success
            /\ response[1].report = None
            /\ response[1].error = "exception"
    /\ pc = "done" <=> response # None
    /\ response # None =>
            /\ DOMAIN response[1] = {"success", "report", "error"}
            /\ response[1].success \in BOOLEAN
            /\ (response[1].success => CompleteReport(response[1].report))
            /\ (~response[1].success => response[1].report = None)

\* the triage stage raises after symptom, vision and medical were stored
C17_Witness ==
    /\ pc = "done"
    /\ Len(llm) = 4
    /\ Last(llm) = Answer("triage", LLMError)
    /\ state.medical_data # None
    /\ state.vision_data # None
    /\ state.triage_data = None
    /\ ~response[1].success
    /\ response[1].report = None
    /\ response[1].error = "exception"

\* the fixed payload a stage returns when its LLM response is not valid JSON
IsDefaultPayload(stage, d) ==
    CASE stage = "symptom_intake" -> d = [main_symptoms |-> <<>>, raw_input |-> "user_input"]
      [] stage = "vision_analysis" ->
            /\ d.has_images = TRUE
            /\ d.visual_findings = <<>>
            /\ d.wound_detected = FALSE
            /\ d.confidence = "None"
      [] stage = "medical_analysis" ->
            /\ d.riskLevel = "medium"
            /\ d.primary_assessment = ""
            /\ d.differential_diagnosis = <<>>
      [] stage = "triage" ->
            /\ d.urgency_score = 0
            /\ d.triage_level = "INFO"
            /\ d.act_color = "Green"
      [] stage = "careplan" ->
            /\ d.home_care_instructions = <<>>
            /\ d.when_to_see_vet = ""

NoStageRaised == \A i \in 1..Len(llm) : llm[i].resp.kind # "error"

\* C18: if a stage's LLM response is not valid JSON, the stage does not
\* raise but returns its fixed default-valued payload, root_orchestrator
\* returns in_progress with that payload, and the pipeline run continues
\* through the remaining stages and still ends with a complete report
\* (success=true), for a parse failure at any one or several of the five
\* stages.
C18_ParseFailureRecovered ==
    /\ \A i \in 1..Len(llm) :
            llm[i].resp.kind = "bad_json" =>
                /\ state[SlotOf[llm[i].stage]] # None
                /\ IsDefaultPayload(llm[i].stage, state[SlotOf[llm[i].stage]][1].structured_data)
    /\ (/\ llm # <<>>
        /\ Last(llm).resp.kind = "bad_json"
        /\ result[1].invoked = <<ToolOf[Last(llm).stage]>>)
            => /\ ~result[1].raised
               /\ result[1].ret.status = "in_progress"
               /\ Some(result[1].ret[SlotOf[Last(llm).stage]]) = state[SlotOf[Last(llm).stage]]
    /\ NoStageRaised =>
            /\ (pc # "done" => ENABLED Next)
            /\ (pc = "done" =>
                    /\ response[1].success
                    /\ CompleteReport(response[1].report)
                    /\ Last(log) = "build_final_report")

\* every one of the five stages got a response that is not valid JSON
C18_Witness ==
    /\ pc = "done"
    /\ Len(llm) = 5
    /\ \A i \in 1..Len(llm) : llm[i].resp.kind = "bad_json"
    /\ response[1].success
    /\ response[1].report # None

Slots ==
    {"symptom_data", "vision_data", "medical_data", "triage_data", "careplan_data",
     "final_report"}

\* C20: within one pipeline run every result slot of the pipeline state
\* (symptom, vision, medical, triage, careplan, final report) is written at
\* most once: once a slot holds a value, no later step clears or overwrites
\* it.
C20_SlotsWrittenOnce ==
    [][\A k \in Slots : state[k] # None => state'[k] = state[k]]_vars

\* a finished run that wrote the five stage slots
C20_Witness ==
    /\ pc = "done"
    /\ response[1].success
    /\ \A k \in Slots \ {"final_report"} : state[k] # None
    /\ Len(log) = 6

Succeeded == pc = "done" /\ response # None /\ response[1].success

\* C21 as stated: a pipeline run populates the slots of the pipeline state
\* one at a time in strict stage order and terminates with the final report
\* slot populated: when a run ends successfully, the state's final_report
\* slot holds the report that was returned.
C21_FinalReportSlotPopulated ==
    Succeeded =>
        /\ state.final_report # None
        /\ state.final_report = response[1].report

\* the slots set so far are a prefix of the stage order (vision left out of
\* the order when no image was sent)
SetInStageOrder ==
    /\ (state.vision_data # None => state.symptom_data # None /\ Truthy(image_urls))
    /\ (state.medical_data # None =>
            /\ state.symptom_data # None
            /\ (Truthy(image_urls) => state.vision_data # None))
    /\ (state.triage_data # None => state.medical_data # None)
    /\ (state.careplan_data # None => state.triage_data # None)
    /\ (state.final_report # None => state.careplan_data # None)

\* C21 as amended: a pipeline run populates the five stage slots one at a
\* time in strict stage order; it ends successfully when the report has been
\* built from them and returned in the response, and the state's
\* final_report slot is still absent then, as it is throughout the run.
C21_StageSlotsInOrderReportReturned ==
    /\ [](SetInStageOrder /\ state.final_report = None)
    /\ [](Succeeded =>
            /\ response[1].report # None
            /\ \A k \in Slots \ {"vision_data", "final_report"} : state[k] # None)
    /\ [][Cardinality({k \in Slots : state'[k] # state[k]}) <= 1]_vars

\* a successful run with images: five slots set, the report returned
C21_Witness ==
    /\ Succeeded
    /\ Truthy(image_urls)
    /\ \A k \in Slots \ {"final_report"} : state[k] # None
    /\ state.final_report = None
    /\ response[1].report # None

\* C23: within one pipeline run each stage function is invoked at most once;
\* a failed stage call is never retried, and after a stage raises no further
\* stage is invoked: the raising call is the last one of the run and the
\* request is finished, with no step taken from a finished request.
C23_EachStageAtMostOnce ==
    /\ [](\A i, j \in 1..Len(log) : log[i] = log[j] => i = j)
    /\ [](\A i, j \in 1..Len(llm) : llm[i].stage = llm[j].stage => i = j)
    /\ [](\A i \in 1..Len(llm) :
            llm[i].resp.kind = "error" =>
                /\ i = Len(llm)
                /\ LastCallRaised
                /\ Last(log) = ToolOf[llm[i].stage]
                /\ pc = "done")
    /\ [][pc # "done" /\ ~LastCallRaised /\ Len(log') = Len(log) + 1]_vars

\* the medical stage raised: it was called once and nothing was called after
C23_Witness ==
    /\ pc = "done"
    /\ LastCallRaised
    /\ Last(llm) = Answer("medical_analysis", LLMError)
    /\ Count("medical_analysis_tool", log) = 1
    /\ Last(log) = "medical_analysis_tool"
    /\ ~InList("triage_agent_tool", log)
    /\ ~InList("careplan_agent_tool", log)

OutputKeyOf ==
    [symptom_intake |-> OUTPUT_KEY_SYMPTOM_INTAKE, vision_analysis |-> OUTPUT_KEY_VISION_ANALYSIS,
     medical_analysis |-> OUTPUT_KEY_MEDICAL_ANALYSIS, triage |-> OUTPUT_KEY_TRIAGE,
     careplan |-> OUTPUT_KEY_CAREPLAN]

\* the stage's call returned (it was invoked and did not raise)
StageReturned(stage) ==
    /\ InList(ToolOf[stage], log)
    /\ ~(LastCallRaised /\ Last(log) = ToolOf[stage])

\* C24: every stage output, on success and on the parse-failure fallback, is
\* an envelope carrying the stage's own output_key and a present
\* structured_data payload; the triage payload always has urgency_score and
\* the careplan fallback payload has home_care_instructions; once a stage
\* has returned, its slot never holds a missing envelope.
C24_StageOutputIsEnvelope ==
    \A stage \in DOMAIN OutputKeyOf :
        /\ StageReturned(stage) => state[SlotOf[stage]] # None
        /\ state[SlotOf[stage]] # None =>
                LET out == state[SlotOf[stage]][1]
                IN  /\ DOMAIN out = {"output_key", "structured_data"}
                    /\ out.output_key = OutputKeyOf[stage]
                    /\ \A other \in DOMAIN OutputKeyOf \ {stage} :
                            out.output_key # OutputKeyOf[other]
                    /\ out.structured_data # None
                    /\ (stage = "triage" =>
                            /\ "urgency_score" \in DOMAIN out.structured_data
                            /\ out.structured_data.urgency_score \in 0..5)
                    /\ (stage = "careplan"
                         /\ Last(llm) = Answer("careplan", LLMBadJson) =>
                            /\ "home_care_instructions" \in DOMAIN out.structured_data
                            /\ out.structured_data.home_care_instructions = <<>>)

\* all five stages returned, triage from valid JSON and careplan from the
\* parse-failure fallback
C24_Witness ==
    /\ pc = "step6"
    /\ \A stage \in DOMAIN OutputKeyOf : StageReturned(stage)
    /\ llm[4].stage = "triage"
    /\ llm[4].resp.kind = "json"
    /\ Last(llm) = Answer("careplan", LLMBadJson)
    /\ state.careplan_data[1].output_key = OUTPUT_KEY_CAREPLAN
    /\ state.triage_data[1].output_key = OUTPUT_KEY_TRIAGE

\* C25: the report built by build_final_report contains a vision_analysis
\* block exactly when the vision stage ran in that run; when the vision
\* output is absent the block is omitted entirely, and the other sections
\* reproduce the stage outputs' field values unchanged (absent fields
\* defaulted to empty values).
C25_VisionBlockIffVisionRan ==
    Succeeded =>
        LET report == response[1].report[1]
            triage_data == state.triage_data[1].structured_data
            careplan_data == state.careplan_data[1].structured_data
        IN  /\ "vision_analysis" \in DOMAIN report <=> InList("vision_analysis_tool", log)
            /\ (state.vision_data = None => "vision_analysis" \notin DOMAIN report)
            /\ report.triage.urgency_score = triage_data.urgency_score
            /\ report.triage.triage_level = triage_data.triage_level
            /\ report.care_plan.home_care_instructions =
                    Get(careplan_data, "home_care_instructions", <<>>)

-----------------------------------------------------------------------------
(* DetectSpec: one call of detect_discrepancies on any two envelopes *)

\* a medical envelope as a caller may pass it: no structured_data, or the
\* riskLevel missing, null, one of the four mapped labels, or another label
DetectMedicalInputs ==
    {[output_key |-> OUTPUT_KEY_MEDICAL_ANALYSIS]}
        \cup {Envelope(OUTPUT_KEY_MEDICAL_ANALYSIS, p) :
                p \in OptionalKey("riskLevel", RiskLabels \cup {"None", "critical"})}

\* a triage envelope as a caller may pass it: no structured_data, or the
\* triage_level missing, null, one of the five levels, or another label, and
\* the urgency_score missing or 0..5
DetectTriageInputs ==
    {[output_key |-> OUTPUT_KEY_TRIAGE]}
        \cup {Envelope(OUTPUT_KEY_TRIAGE, Update(l, sc)) :
                l \in OptionalKey("triage_level",
                                  {"INFO", "LOW", "MODERATE", "HIGH", "EMERGENCY",
                                   "None", "URGENT"}),
                sc \in OptionalKey("urgency_score", 0..5)}

DetectInit ==
    /\ cin \in [symptom_data : {CollabSymptom},
                medical_data : DetectMedicalInputs,
                triage_data : DetectTriageInputs,
                use_claude : {FALSE}]
    /\ analysis = None
    /\ cout = None
    /\ reviewerCalls = 0
    /\ pc = "ready"
    /\ state = GraphState("user_input", None)
    /\ image_urls = None
    /\ result = None
    /\ log = <<>>
    /\ response = None
    /\ llm = <<>>

DetectNext == Detect

DetectSpec == DetectInit /\ [][DetectNext]_vars

\* the label a caller passed, "missing" when the key (or the payload) is absent
PassedMedicalRisk == Get(Get(cin.medical_data, "structured_data", <<>>), "riskLevel", "missing")

PassedTriageLevel == Get(Get(cin.triage_data, "structured_data", <<>>), "triage_level", "missing")

\* C26: in detect_discrepancies a missing, null or unrecognised medical
\* risk label is treated as medium (mapped MODERATE) and a missing, null or
\* unrecognised triage level is treated as MODERATE before the comparison,
\* so a null or unknown label never reaches the comparison and two missing
\* labels never produce a discrepancy.
C26_LabelsDefaultedBeforeComparison ==
    Detected =>
        LET medical == IF PassedMedicalRisk \in RiskLabels THEN PassedMedicalRisk ELSE "medium"
            triage == IF PassedTriageLevel \in FiveLevels THEN PassedTriageLevel ELSE "MODERATE"
        IN  /\ analysis[1].medical_triage_equivalent = risk_mapping(medical)
            /\ analysis[1].triage_level = triage
            /\ analysis[1].has_discrepancies = (risk_mapping(medical) # triage)
            /\ (PassedMedicalRisk = "missing" /\ PassedTriageLevel = "missing"
                    => ~analysis[1].has_discrepancies)

-----------------------------------------------------------------------------
(* Claims about the endpoint and root_orchestrator together *)

\* the stages triage_endpoint expects its calls to execute, in order
ExpectedStages ==
    IF Truthy(image_urls) THEN StageOrder
    ELSE <<"symptom_intake", "medical_analysis", "triage", "careplan", "final_report">>

\* C27: triage_endpoint's fixed call sequence stays in step with
\* root_orchestrator's presence-based stage selection: when no stage raises,
\* each call executes exactly the stage whose result key the endpoint reads
\* next, so none of the endpoint's 'Unexpected result' failures is taken,
\* every required slot is non-null when assigned, and the request ends with
\* success=true after five orchestrator calls (six when images are
\* supplied).
C27_EndpointInStepWithOrchestrator ==
    /\ (response # None /\ ~response[1].success => LastCallRaised)
    /\ NoStageRaised =>
            /\ Len(log) <= Len(ExpectedStages)
            /\ \A i \in 1..Len(log) :
                    /\ log[i] = ToolOf[ExpectedStages[i]]
                    /\ ExpectedStages[i] # "final_report" =>
                            state[SlotOf[ExpectedStages[i]]] # None
            /\ result # None =>
                    /\ ~result[1].raised
                    /\ result[1].invoked = <<Last(log)>>
                    /\ result[1].ret.status =
                            IF Len(log) = Len(ExpectedStages) THEN "complete" ELSE "in_progress"
                    /\ Len(log) < Len(ExpectedStages) =>
                            /\ SlotOf[ExpectedStages[Len(log)]] \in DOMAIN result[1].ret
                            /\ state[SlotOf[ExpectedStages[Len(log)]]] =
                                    Some(result[1].ret[SlotOf[ExpectedStages[Len(log)]]])
            /\ (pc = "done" =>
                    /\ response[1].success
                    /\ response[1].error = None
                    /\ Len(log) = IF Truthy(image_urls) THEN 6 ELSE 5)

\* a request with images answered after six orchestrator calls
C27_Witness ==
    /\ pc = "done"
    /\ NoStageRaised
    /\ Truthy(image_urls)
    /\ log = [i \in 1..6 |-> ToolOf[StageOrder[i]]]
    /\ response[1].success
    /\ result[1].ret.status = "complete"

\* the slots of the passed state that are set
SetSlots == {k \in Slots : state[k] # None}

\* C28: for every pipeline state, including states whose slots were filled
\* out of order, root_orchestrator invokes the medical stage only when the
\* symptom slot is set, the triage stage only when the symptom and medical
\* slots are set, the careplan stage only when the symptom, medical and
\* triage slots are set, and returns complete with a newly built report only
\* when all four required slots are set; no stage is invoked on a missing
\* upstream output.
C28_StageOnlyWithUpstreamOutputs ==
    Returned =>
        /\ state = result[1].state
        /\ (InList("medical_analysis_tool", log) => {"symptom_data"} \subseteq SetSlots)
        /\ (InList("triage_agent_tool", log) =>
                {"symptom_data", "medical_data"} \subseteq SetSlots)
        /\ (InList("careplan_agent_tool", log) =>
                {"symptom_data", "medical_data", "triage_data"} \subseteq SetSlots)
        /\ (InList("build_final_report", log) =>
                /\ RequiredSlots \subseteq SetSlots
                /\ ~result[1].raised
                /\ result[1].ret.status = "complete"
                /\ result[1].ret.report =
                        build_final_report(state.symptom_data[1], state.vision_data,
                                           state.medical_data[1], state.triage_data[1],
                                           state.careplan_data[1]))
        /\ (~result[1].raised /\ result[1].ret.status = "complete" =>
                RequiredSlots \subseteq SetSlots)
        /\ (RequiredSlots \subseteq SetSlots /\ state.final_report = None
             /\ ~("vision_data" \notin SetSlots /\ ImagesSupplied(state)) =>
                log = <<"build_final_report">>)

\* an out-of-order state: careplan and triage set, medical absent; the
\* medical stage is the one invoked
C28_Witness ==
    /\ Returned
    /\ SetSlots = {"symptom_data", "triage_data", "careplan_data"}
    /\ log = <<"medical_analysis_tool">>
    /\ ~result[1].raised
    /\ result[1].ret.status = "in_progress"

-----------------------------------------------------------------------------
(* Claims about the INFO level (CollabSpec) and about level and score (TriageSpec) *)

\* C29: no medical risk label maps to INFO, so a triage level of INFO (which
\* the triage stage can produce, also by coercion or fallback) always
\* yields has_discrepancies = true and needs_review = true in
\* detect_discrepancies, whatever the medical risk and urgency score: the
\* collaborative function never takes the fast path for an INFO triage and
\* always calls the reviewer.
C29_InfoAlwaysReviewed ==
    /\ \A r \in RiskLabels \cup {"None", "critical", "INFO", "info"} : risk_mapping(r) # "INFO"
    /\ (Detected /\ TriageLevel = "INFO" =>
            /\ analysis[1].triage_level = "INFO"
            /\ analysis[1].medical_triage_equivalent # "INFO"
            /\ analysis[1].has_discrepancies
            /\ analysis[1].needs_review)
    /\ (pc = "returned" /\ TriageLevel = "INFO" =>
            /\ reviewerCalls = 1
            /\ Reviewed
            /\ (CollabReturned =>
                    /\ Discrepancy.has_discrepancies
                    /\ Discrepancy.needs_review
                    /\ ~(ReviewResult = None /\ Consensus.confidence_score = 80)))

\* a low medical risk with an INFO triage of score 0: reviewed all the same
C29_Witness ==
    /\ CollabReturned
    /\ MedicalRisk = "low"
    /\ TriageLevel = "INFO"
    /\ TriageScore = 0
    /\ Discrepancy.needs_review
    /\ reviewerCalls = 1

\* the level the triage prompt's table gives for a score
LevelOfScore(score) ==
    CASE score = 0 -> TRIAGE_INFO
      [] score = 1 -> TRIAGE_LOW
      [] score = 2 -> TRIAGE_MODERATE
      [] score = 3 -> TRIAGE_HIGH
      [] OTHER -> TRIAGE_EMERGENCY

\* C30: in every triage stage output, and therefore in the triage block of
\* every final report, triage_level agrees with urgency_score under the
\* table stated in the triage prompt (0 INFO, 1 LOW, 2 MODERATE, 3 HIGH,
\* 4 and 5 EMERGENCY), also after the PSHVM weight has been added to the
\* model's base score.
C30_LevelAgreesWithScore ==
    TriageReturned => TriageOut.triage_level = LevelOfScore(TriageOut.urgency_score)

=============================================================================
